---- MODULE Spec2Model ----
(***************************************************************************)
(* CampusBites environment and API validation script                      *)
(* (server/validate-env.js): the diagnostic runner runAllTests, its seven  *)
(* checks, the two global counters and generateReport.                     *)
(*                                                                         *)
(* Strings are sequences of one-character strings, so that length,         *)
(* slice, equality and includes are computed as JavaScript computes them.  *)
(* A value read from process.env is a record: defined = FALSE is           *)
(* JavaScript's undefined, otherwise chars holds the string (which may be  *)
(* empty: `NAME=` in the .env file).                                       *)
(***************************************************************************)
EXTENDS Integers, Sequences, FiniteSets

VARIABLES
    env,            \* process.env, restricted to the ten variables read
    testsPassed,    \* let testsPassed
    testsFailed,    \* let testsFailed
    pc,             \* the function runAllTests is about to await
    executed,       \* the functions runAllTests has awaited, in call order
    passedBefore,   \* testsPassed when the latest function was entered
    failedBefore,   \* testsFailed when the latest function was entered
    calls,          \* external calls made by the latest function, with outcomes
    console,        \* result lines logged by the latest function
    report,         \* what generateReport computed (NoReport before it ran)
    exitCode        \* process exit status (Running while the script runs)

vars == <<env, testsPassed, testsFailed, pc, executed, passedBefore,
          failedBefore, calls, console, report, exitCode>>

----------------------------------------------------------------------------
(* Bounds of the model *)

\* Longest secret tried; secrets of every length from 19 up to this are drawn.
MaxSecretLen == 20

----------------------------------------------------------------------------
(* Strings *)

DEV_ORIGIN == <<"h","t","t","p",":","/","/","l","o","c","a","l","h","o","s","t",":","5","1","7","3">>
VERCEL_APP == <<"v","e","r","c","e","l",".","a","p","p">>
CAMPUSBITES == <<"c","a","m","p","u","s","b","i","t","e","s">>
UrlProd == <<"h","t","t","p","s",":","/","/","c","a","m","p","u","s","b","i","t","e","s",".","v","e","r","c","e","l",".","a","p","p">>
UrlExample == <<"h","t","t","p","s",":","/","/","e","x","a","m","p","l","e",".","o","r","g">>
UrlCampusOnly == <<"h","t","t","p","s",":","/","/","c","a","m","p","u","s","b","i","t","e","s",".","i","n">>
UrlVercelOnly == <<"h","t","t","p","s",":","/","/","f","o","o","d",".","v","e","r","c","e","l",".","a","p","p">>
UrlDevSlash == <<"h","t","t","p",":","/","/","l","o","c","a","l","h","o","s","t",":","5","1","7","3","/">>
SampleValue == <<"v","a","l","u","e","-","1","2","3","4">>
SampleMongoUri == <<"m","o","n","g","o","d","b",":","/","/","u",":","p","@","d","b">>
Stars == <<"*","*","*">>
NotSetText == <<"N","O","T"," ","S","E","T">>

\* String.prototype.includes
Includes(s, sub) ==
    \E i \in 0..(Len(s) - Len(sub)) : SubSeq(s, i + 1, i + Len(sub)) = sub

\* value.slice(-n)
SliceLast(s, n) ==
    IF Len(s) <= n THEN s ELSE SubSeq(s, Len(s) - n + 1, Len(s))

\* A string of n characters
Secret(n) == [i \in 1..n |-> "k"]

----------------------------------------------------------------------------
(* process.env *)

Undefined == [defined |-> FALSE, chars |-> <<>>]
StrVal(cs) == [defined |-> TRUE, chars |-> cs]

\* JavaScript truthiness of a process.env value, as in `value ? ..` and `!x`:
\* undefined and the empty string are falsy.
Truthy(v) == v.defined /\ Len(v.chars) > 0

envVars == <<
    [name |-> "MONGODB_URI",              required |-> TRUE,  sensitive |-> TRUE],
    [name |-> "FRONTEND_URL",             required |-> TRUE,  sensitive |-> FALSE],
    [name |-> "CLODINARY_CLOUD_NAME",     required |-> TRUE,  sensitive |-> FALSE],
    [name |-> "CLODINARY_API_KEY",        required |-> TRUE,  sensitive |-> FALSE],
    [name |-> "CLODINARY_API_SECRET_KEY", required |-> TRUE,  sensitive |-> TRUE],
    [name |-> "RESEND_API",               required |-> TRUE,  sensitive |-> TRUE],
    [name |-> "SECRET_KEY_ACCESS_TOKEN",  required |-> TRUE,  sensitive |-> TRUE],
    [name |-> "SECRET_KEY_REFRESH_TOKEN", required |-> TRUE,  sensitive |-> TRUE],
    [name |-> "PORT",                     required |-> FALSE, sensitive |-> FALSE],
    [name |-> "STRIPE_SECRET_KEY",        required |-> FALSE, sensitive |-> TRUE] >>

EnvNames == {envVars[i].name : i \in 1..Len(envVars)}

\* The environments the runs start from.  Every one of the ten variables is
\* either unset or set; the variables whose value a check inspects also take
\* the empty string and the values on either side of each test.
SecretValues ==
    {Undefined, StrVal(<<>>)} \cup {StrVal(Secret(n)) : n \in 19..MaxSecretLen}

FrontendValues ==
    {Undefined, StrVal(<<>>), StrVal(DEV_ORIGIN), StrVal(UrlDevSlash),
     StrVal(UrlProd), StrVal(UrlExample), StrVal(UrlCampusOnly),
     StrVal(UrlVercelOnly)}

PlainValues == {Undefined, StrVal(SampleValue)}

ValuesOf(name) ==
    CASE name = "MONGODB_URI" -> {Undefined, StrVal(<<>>), StrVal(SampleMongoUri)}
      [] name = "FRONTEND_URL" -> FrontendValues
      [] name = "SECRET_KEY_ACCESS_TOKEN" -> SecretValues
      [] name = "SECRET_KEY_REFRESH_TOKEN" -> SecretValues
      [] OTHER -> PlainValues

\* The representative value of a variable that is set.
DefaultOf(name) ==
    CASE name = "MONGODB_URI" -> StrVal(SampleMongoUri)
      [] name = "FRONTEND_URL" -> StrVal(DEV_ORIGIN)
      [] name = "SECRET_KEY_ACCESS_TOKEN" -> StrVal(Secret(20))
      [] name = "SECRET_KEY_REFRESH_TOKEN" -> StrVal(Secret(20))
      [] OTHER -> StrVal(SampleValue)

InspectedNames ==
    {"MONGODB_URI", "FRONTEND_URL", "SECRET_KEY_ACCESS_TOKEN",
     "SECRET_KEY_REFRESH_TOKEN"}

\* (a) every set/unset assignment of the ten variables, and
\* (b) every combination of values of the four inspected variables, the six
\*     others all set or all unset.
EnvChoices ==
    {[n \in EnvNames |-> IF n \in S THEN DefaultOf(n) ELSE Undefined] :
        S \in SUBSET EnvNames}
    \cup
    {[n \in EnvNames |->
        CASE n = "MONGODB_URI" -> q[1]
          [] n = "FRONTEND_URL" -> q[2]
          [] n = "SECRET_KEY_ACCESS_TOKEN" -> q[3]
          [] n = "SECRET_KEY_REFRESH_TOKEN" -> q[4]
          [] OTHER -> q[5]] :
        q \in ValuesOf("MONGODB_URI") \X FrontendValues \X SecretValues
               \X SecretValues \X PlainValues}

----------------------------------------------------------------------------
(* The outside world: what the awaited calls can answer *)

BASE_URL == "http://localhost:8080"
RESEND_URL == "https://api.resend.com/emails"

Response(status) == [kind |-> "response", status |-> status]
NetworkError == [kind |-> "error", status |-> 0]

\* response.ok of node-fetch: the status is in the range 200-299
Ok(resp) == resp.kind = "response" /\ resp.status >= 200 /\ resp.status <= 299

\* Answers of api.resend.com tried: both ends of the 2xx range, the statuses
\* next to it, 401 and its neighbours' class, a server error, and a failure
\* of the request itself.
ResendAnswers ==
    {Response(st) : st \in {200, 299, 300, 401, 403, 500}} \cup {NetworkError}

\* Answers of the local server tried per endpoint.
EndpointAnswers == {Response(200), Response(404), NetworkError}

PromiseOutcomes == {"resolved", "rejected"}

----------------------------------------------------------------------------
(* What one awaited function did: counter increments, the external calls  *)
(* it made, the result lines it logged, and whether an exception left it. *)

Result(p, f, cl, con, th) ==
    [passed |-> p, failed |-> f, calls |-> cl, console |-> con, thrown |-> th]

Line(msg, color) == [msg |-> msg, color |-> color]

----------------------------------------------------------------------------
(* testEnvironmentVariables *)

\* const displayValue = value ? (sensitive ? '***' + value.slice(-4) : value)
\*                            : 'NOT SET'
DisplayValue(envVar, value) ==
    IF Truthy(value)
       THEN IF envVar.sensitive THEN Stars \o SliceLast(value.chars, 4)
            ELSE value.chars
       ELSE NotSetText

\* Mutation of EnvVarStep: `else if (envVar.required)` lost, every unset
\* variable counts as failed.
EnvVarStep_OptionalFails(e, i) ==
    LET envVar == envVars[i]
        value == e[envVar.name]
    IN [passed |-> IF Truthy(value) THEN 1 ELSE 0,
        failed |-> IF ~Truthy(value) THEN 1 ELSE 0,
        line |-> [msg |-> envVar.name,
                  color |-> IF Truthy(value) THEN "green" ELSE "red",
                  requirement |-> IF envVar.required THEN "[REQUIRED]"
                                 ELSE "[OPTIONAL]",
                  display |-> DisplayValue(envVar, value)]]

\* Mutation of EnvVarStep: the else branch lost, an unset variable is logged
\* but never counted.
EnvVarStep_AbsentNotCounted(e, i) ==
    LET envVar == envVars[i]
        value == e[envVar.name]
    IN [passed |-> IF Truthy(value) THEN 1 ELSE 0,
        failed |-> 0,
        line |-> [msg |-> envVar.name,
                  color |-> IF Truthy(value) THEN "green" ELSE "red",
                  requirement |-> IF envVar.required THEN "[REQUIRED]"
                                 ELSE "[OPTIONAL]",
                  display |-> DisplayValue(envVar, value)]]

\* The callback of envVars.forEach, applied to the i-th spec: the counter
\* increments and the logged line.
EnvVarStep(e, i) ==
    LET envVar == envVars[i]
        value == e[envVar.name]
    IN [passed |-> IF Truthy(value) THEN 1 ELSE 0,
        failed |-> IF (~Truthy(value)) /\ envVar.required THEN 1 ELSE 0,
        line |-> [msg |-> envVar.name,
                  color |-> IF Truthy(value) THEN "green" ELSE "red",
                  requirement |-> IF envVar.required THEN "[REQUIRED]"
                                 ELSE "[OPTIONAL]",
                  display |-> DisplayValue(envVar, value)]]

RECURSIVE EnvLoop(_, _)
\* envVars.forEach over the specs i..10, in list order
EnvLoop(e, i) ==
    IF i > Len(envVars) THEN Result(0, 0, <<>>, <<>>, FALSE)
    ELSE LET s == EnvVarStep(e, i)
             rest == EnvLoop(e, i + 1)
         IN Result(s.passed + rest.passed, s.failed + rest.failed, <<>>,
                   <<s.line>> \o rest.console, FALSE)

testEnvironmentVariables(e) == EnvLoop(e, 1)

----------------------------------------------------------------------------
(* testMongoDBConnection *)

\* Mutation of testMongoDBConnection: no try/catch around the connect, a
\* rejected connect leaves the function as an exception.
testMongoDBConnection_Uncaught(e, connectOutcome, disconnectOutcome) ==
    LET mongoUri == e["MONGODB_URI"]
        connect == [fn |-> "mongoose.connect", outcome |-> connectOutcome]
        disconnect == [fn |-> "mongoose.disconnect",
                       outcome |-> disconnectOutcome]
    IN IF ~Truthy(mongoUri)
       THEN Result(0, 1, <<>>,
                   <<Line("MONGODB_URI not configured", "red")>>, FALSE)
       ELSE IF connectOutcome = "rejected"
       THEN Result(0, 0, <<connect>>, <<>>, TRUE)
       ELSE IF disconnectOutcome = "rejected"
       THEN Result(1, 0, <<connect, disconnect>>,
                   <<Line("MongoDB Connection: SUCCESS", "green")>>, TRUE)
       ELSE Result(1, 0, <<connect, disconnect>>,
                   <<Line("MongoDB Connection: SUCCESS", "green")>>, FALSE)

testMongoDBConnection(e, connectOutcome, disconnectOutcome) ==
    LET mongoUri == e["MONGODB_URI"]
        connect == [fn |-> "mongoose.connect", outcome |-> connectOutcome]
        disconnect == [fn |-> "mongoose.disconnect",
                       outcome |-> disconnectOutcome]
    IN IF ~Truthy(mongoUri)
       THEN Result(0, 1, <<>>,
                   <<Line("MONGODB_URI not configured", "red")>>, FALSE)
       ELSE IF connectOutcome = "rejected"
       THEN \* await mongoose.connect throws: the catch block
            Result(0, 1, <<connect>>,
                   <<Line("MongoDB Connection: FAILED", "red")>>, FALSE)
       ELSE IF disconnectOutcome = "rejected"
       THEN \* testsPassed++ has run; await mongoose.disconnect throws into
            \* the same catch block
            Result(1, 1, <<connect, disconnect>>,
                   <<Line("MongoDB Connection: SUCCESS", "green"),
                     Line("MongoDB Connection: FAILED", "red")>>, FALSE)
       ELSE Result(1, 0, <<connect, disconnect>>,
                   <<Line("MongoDB Connection: SUCCESS", "green")>>, FALSE)

----------------------------------------------------------------------------
(* testCloudinaryAPI *)

testCloudinaryAPI(e, usageOutcome) ==
    LET cloudName == e["CLODINARY_CLOUD_NAME"]
        apiKey == e["CLODINARY_API_KEY"]
        apiSecret == e["CLODINARY_API_SECRET_KEY"]
        usage == [fn |-> "cloudinary.api.usage", outcome |-> usageOutcome]
    IN IF (~Truthy(cloudName)) \/ (~Truthy(apiKey)) \/ (~Truthy(apiSecret))
       THEN Result(0, 1, <<>>,
                   <<Line("Cloudinary credentials not configured", "red")>>,
                   FALSE)
       ELSE IF usageOutcome = "rejected"
       THEN Result(0, 1, <<usage>>,
                   <<Line("Cloudinary API: FAILED", "red")>>, FALSE)
       ELSE Result(1, 0, <<usage>>,
                   <<Line("Cloudinary API: SUCCESS", "green")>>, FALSE)

----------------------------------------------------------------------------
(* testResendAPI *)

\* One fetch(url, options) call and what it settled with
Fetch(method, base, path, withBody, answer) ==
    [fn |-> "fetch", method |-> method, base |-> base, path |-> path,
     withBody |-> withBody, response |-> answer]

\* Mutation of testResendAPI: no try/catch, a failed request leaves the
\* function as an exception.
testResendAPI_Uncaught(e, answer) ==
    LET resendApi == e["RESEND_API"]
        request == Fetch("GET", RESEND_URL, "", FALSE, answer)
    IN IF ~Truthy(resendApi)
       THEN Result(0, 1, <<>>,
                   <<Line("RESEND_API not configured", "red")>>, FALSE)
       ELSE IF answer.kind = "error"
       THEN Result(0, 0, <<request>>, <<>>, TRUE)
       ELSE IF Ok(answer) \/ answer.status = 200 \/ answer.status = 401
       THEN Result(1, 0, <<request>>,
                   <<Line("Resend Email API: SUCCESS", "green")>>, FALSE)
       ELSE Result(0, 1, <<request>>,
                   <<Line("Resend Email API: FAILED", "red")>>, FALSE)

\* Mutation of testResendAPI: `|| response.status === 401` lost, a 401 is a
\* failure like any other non-2xx status.
testResendAPI_401Fails(e, answer) ==
    LET resendApi == e["RESEND_API"]
        request == Fetch("GET", RESEND_URL, "", FALSE, answer)
    IN IF ~Truthy(resendApi)
       THEN Result(0, 1, <<>>,
                   <<Line("RESEND_API not configured", "red")>>, FALSE)
       ELSE IF answer.kind = "error"
       THEN Result(0, 1, <<request>>,
                   <<Line("Resend Email API: FAILED", "red")>>, FALSE)
       ELSE IF Ok(answer) \/ answer.status = 200
       THEN Result(1, 0, <<request>>,
                   <<Line("Resend Email API: SUCCESS", "green")>>, FALSE)
       ELSE Result(0, 1, <<request>>,
                   <<Line("Resend Email API: FAILED", "red")>>, FALSE)

testResendAPI(e, answer) ==
    LET resendApi == e["RESEND_API"]
        request == Fetch("GET", RESEND_URL, "", FALSE, answer)
    IN IF ~Truthy(resendApi)
       THEN Result(0, 1, <<>>,
                   <<Line("RESEND_API not configured", "red")>>, FALSE)
       ELSE IF answer.kind = "error"
       THEN \* await fetch throws: the catch block
            Result(0, 1, <<request>>,
                   <<Line("Resend Email API: FAILED", "red")>>, FALSE)
       ELSE IF Ok(answer) \/ answer.status = 200 \/ answer.status = 401
       THEN Result(1, 0, <<request>>,
                   <<Line("Resend Email API: SUCCESS", "green")>>, FALSE)
       ELSE Result(0, 1, <<request>>,
                   <<Line("Resend Email API: FAILED", "red")>>, FALSE)

----------------------------------------------------------------------------
(* testJWTSecrets *)

\* Mutation of SecretValid: `>` for `>=`, a 20-character secret is too short.
SecretValid_Strict(token) == Len(token.chars) > 20

\* accessToken.length >= 20
SecretValid(token) == Len(token.chars) >= 20

\* The if/else on one secret's validity
SecretVerdict(name, token) ==
    IF SecretValid(token)
    THEN [passed |-> 1, failed |-> 0,
          line |-> [msg |-> "VALID", color |-> "green", secret |-> name,
                    length |-> Len(token.chars)]]
    ELSE [passed |-> 0, failed |-> 1,
          line |-> [msg |-> "TOO SHORT", color |-> "yellow", secret |-> name,
                    length |-> Len(token.chars)]]

testJWTSecrets(e) ==
    LET accessToken == e["SECRET_KEY_ACCESS_TOKEN"]
        refreshToken == e["SECRET_KEY_REFRESH_TOKEN"]
        a == SecretVerdict("SECRET_KEY_ACCESS_TOKEN", accessToken)
        r == SecretVerdict("SECRET_KEY_REFRESH_TOKEN", refreshToken)
    IN IF (~Truthy(accessToken)) \/ (~Truthy(refreshToken))
       THEN Result(0, 1, <<>>,
                   <<Line("JWT Secrets not configured", "red")>>, FALSE)
       ELSE Result(a.passed + r.passed, a.failed + r.failed, <<>>,
                   <<a.line, r.line>>, FALSE)

----------------------------------------------------------------------------
(* testCORSConfiguration *)

\* Mutation of testCORSConfiguration: the final else counts the unusual
\* origin as a failure.
testCORSConfiguration_UnusualFails(e) ==
    LET frontendUrl == e["FRONTEND_URL"]
    IN IF ~Truthy(frontendUrl)
       THEN Result(0, 1, <<>>,
                   <<Line("FRONTEND_URL not configured", "red")>>, FALSE)
       ELSE IF frontendUrl.chars = DEV_ORIGIN
       THEN Result(1, 0, <<>>,
                   <<Line("CORS Configuration: VALID (Development)", "green")>>,
                   FALSE)
       ELSE IF Includes(frontendUrl.chars, VERCEL_APP)
               \/ Includes(frontendUrl.chars, CAMPUSBITES)
       THEN Result(1, 0, <<>>,
                   <<Line("CORS Configuration: VALID (Production)", "green")>>,
                   FALSE)
       ELSE Result(0, 1, <<>>,
                   <<Line("CORS Configuration: UNUSUAL", "yellow")>>, FALSE)

testCORSConfiguration(e) ==
    LET frontendUrl == e["FRONTEND_URL"]
    IN IF ~Truthy(frontendUrl)
       THEN Result(0, 1, <<>>,
                   <<Line("FRONTEND_URL not configured", "red")>>, FALSE)
       ELSE IF frontendUrl.chars = DEV_ORIGIN
       THEN Result(1, 0, <<>>,
                   <<Line("CORS Configuration: VALID (Development)", "green")>>,
                   FALSE)
       ELSE IF Includes(frontendUrl.chars, VERCEL_APP)
               \/ Includes(frontendUrl.chars, CAMPUSBITES)
       THEN Result(1, 0, <<>>,
                   <<Line("CORS Configuration: VALID (Production)", "green")>>,
                   FALSE)
       ELSE Result(0, 0, <<>>,
                   <<Line("CORS Configuration: UNUSUAL", "yellow")>>, FALSE)

----------------------------------------------------------------------------
(* testAPIEndpoints *)

endpoints == <<
    [method |-> "GET",  path |-> "/",                 description |-> "Health Check",   hasBody |-> FALSE],
    [method |-> "GET",  path |-> "/api/category/get", description |-> "Get Categories", hasBody |-> FALSE],
    [method |-> "POST", path |-> "/api/product/get",  description |-> "Get Products",   hasBody |-> TRUE] >>

\* The body of the for loop for the i-th endpoint, answered by `answer`:
\* the request, the counter increments and the logged line.
EndpointStep(i, answer) ==
    LET endpoint == endpoints[i]
        request == Fetch(endpoint.method, BASE_URL, endpoint.path,
                         endpoint.hasBody /\ endpoint.method = "POST", answer)
    IN IF answer.kind = "error"
       THEN [passed |-> 0, failed |-> 1, call |-> request,
             line |-> [msg |-> "FAILED", color |-> "red",
                       description |-> endpoint.description]]
       ELSE IF Ok(answer)
       THEN [passed |-> 1, failed |-> 0, call |-> request,
             line |-> [msg |-> "SUCCESS", color |-> "green",
                       description |-> endpoint.description]]
       ELSE [passed |-> 0, failed |-> 0, call |-> request,
             line |-> [msg |-> "STATUS", color |-> "yellow",
                       description |-> endpoint.description]]

RECURSIVE EndpointLoop(_, _)
\* for (const endpoint of endpoints), from the i-th endpoint on; the
\* try/catch is inside the loop body, so a failed request goes on to the next
EndpointLoop(answers, i) ==
    IF i > Len(endpoints) THEN Result(0, 0, <<>>, <<>>, FALSE)
    ELSE LET s == EndpointStep(i, answers[i])
             rest == EndpointLoop(answers, i + 1)
         IN Result(s.passed + rest.passed, s.failed + rest.failed,
                   <<s.call>> \o rest.calls, <<s.line>> \o rest.console,
                   FALSE)

RECURSIVE EndpointLoop_TryOutside(_, _)
\* The loop with the try/catch around it instead of inside it: the first
\* failed request ends the loop.
EndpointLoop_TryOutside(answers, i) ==
    IF i > Len(endpoints) THEN Result(0, 0, <<>>, <<>>, FALSE)
    ELSE LET s == EndpointStep(i, answers[i])
             rest == IF answers[i].kind = "error"
                     THEN Result(0, 0, <<>>, <<>>, FALSE)
                     ELSE EndpointLoop_TryOutside(answers, i + 1)
         IN Result(s.passed + rest.passed, s.failed + rest.failed,
                   <<s.call>> \o rest.calls, <<s.line>> \o rest.console,
                   FALSE)

\* Mutation of testAPIEndpoints: the try/catch encloses the for loop.
testAPIEndpoints_StopAtError(answers) == EndpointLoop_TryOutside(answers, 1)

testAPIEndpoints(answers) == EndpointLoop(answers, 1)

----------------------------------------------------------------------------
(* generateReport *)

NoReport == [ran |-> FALSE, totalTests |-> 0, passed |-> 0, failed |-> 0,
             passPercentage |-> 0, rateColor |-> "", verdict |-> ""]

\* ((testsPassed / totalTests) * 100).toFixed(2), as the number of hundredths
\* the printed decimal denotes ("80.00" is 8000): the quotient rounded to the
\* nearest hundredth.
ToFixed2(passed, total) == (passed * 20000 + total) \div (2 * total)

PassPercentage(passed, failed) ==
    LET totalTests == passed + failed
    IN IF totalTests > 0 THEN ToFixed2(passed, totalTests) ELSE 0

\* Mutation of Verdict: `passPercentage > 80` for `>= 80`.
Verdict_StrictThreshold(passed, failed) ==
    IF failed = 0 THEN "ALL TESTS PASSED"
    ELSE IF PassPercentage(passed, failed) > 80 * 100
    THEN "Some optional tests failed"
    ELSE "Critical failures detected"

\* the if / else if / else over testsFailed and passPercentage
Verdict(passed, failed) ==
    IF failed = 0 THEN "ALL TESTS PASSED"
    ELSE IF PassPercentage(passed, failed) >= 80 * 100
    THEN "Some optional tests failed"
    ELSE "Critical failures detected"

generateReport(passed, failed) ==
    [ran |-> TRUE,
     totalTests |-> passed + failed,
     passed |-> passed,
     failed |-> failed,
     passPercentage |-> PassPercentage(passed, failed),
     rateColor |-> IF PassPercentage(passed, failed) >= 80 * 100
                   THEN "green" ELSE "red",
     verdict |-> Verdict(passed, failed)]

----------------------------------------------------------------------------
(* runAllTests *)

\* The awaits inside the try block, in program order
Order == <<"testEnvironmentVariables", "testMongoDBConnection",
           "testCloudinaryAPI", "testResendAPI", "testJWTSecrets",
           "testCORSConfiguration", "testAPIEndpoints", "generateReport">>

IndexOf(name) == CHOOSE i \in 1..Len(Order) : Order[i] = name

\* Where control goes when the await of `name` returns normally
After(name) ==
    IF IndexOf(name) = Len(Order) THEN "done" ELSE Order[IndexOf(name) + 1]

Init ==
    /\ env \in EnvChoices
    /\ testsPassed = 0
    /\ testsFailed = 0
    /\ pc = Order[1]
    /\ executed = <<>>
    /\ passedBefore = 0
    /\ failedBefore = 0
    /\ calls = <<>>
    /\ console = <<>>
    /\ report = NoReport
    /\ exitCode = 0

\* `await name()` inside the try block of runAllTests, the awaited function
\* having done r: its counter increments take effect; an exception leaving it
\* lands in the catch block, which calls process.exit(1).
Await(name, r) ==
    /\ pc = name
    /\ testsPassed' = testsPassed + r.passed
    /\ testsFailed' = testsFailed + r.failed
    /\ passedBefore' = testsPassed
    /\ failedBefore' = testsFailed
    /\ calls' = r.calls
    /\ console' = r.console
    /\ executed' = Append(executed, name)
    /\ IF r.thrown
       THEN pc' = "exited" /\ exitCode' = 1
       ELSE pc' = After(name) /\ exitCode' = exitCode
    /\ UNCHANGED <<env, report>>

AwaitEnvironmentVariables ==
    Await("testEnvironmentVariables", testEnvironmentVariables(env))

AwaitMongoDBConnection ==
    \E connectOutcome \in PromiseOutcomes, disconnectOutcome \in PromiseOutcomes :
        Await("testMongoDBConnection",
              testMongoDBConnection(env, connectOutcome, disconnectOutcome))

AwaitCloudinaryAPI ==
    \E usageOutcome \in PromiseOutcomes :
        Await("testCloudinaryAPI", testCloudinaryAPI(env, usageOutcome))

AwaitResendAPI ==
    \E answer \in ResendAnswers :
        Await("testResendAPI", testResendAPI(env, answer))

AwaitJWTSecrets ==
    Await("testJWTSecrets", testJWTSecrets(env))

AwaitCORSConfiguration ==
    Await("testCORSConfiguration", testCORSConfiguration(env))

AwaitAPIEndpoints ==
    \E answers \in [1..Len(endpoints) -> EndpointAnswers] :
        Await("testAPIEndpoints", testAPIEndpoints(answers))

\* await generateReport(): it reads the counters, changes neither, and the
\* script ends with the exit status it has.
AwaitGenerateReport ==
    /\ pc = "generateReport"
    /\ report' = generateReport(testsPassed, testsFailed)
    /\ passedBefore' = testsPassed
    /\ failedBefore' = testsFailed
    /\ calls' = <<>>
    /\ console' = <<Line(report'.verdict, report'.rateColor)>>
    /\ executed' = Append(executed, "generateReport")
    /\ pc' = "done"
    /\ UNCHANGED <<env, testsPassed, testsFailed, exitCode>>

runAllTests ==
    \/ AwaitEnvironmentVariables
    \/ AwaitMongoDBConnection
    \/ AwaitCloudinaryAPI
    \/ AwaitResendAPI
    \/ AwaitJWTSecrets
    \/ AwaitCORSConfiguration
    \/ AwaitAPIEndpoints
    \/ AwaitGenerateReport

Next == runAllTests

Spec == Init /\ [][Next]_vars

----------------------------------------------------------------------------
(* Vocabulary of the properties *)

\* A variable counts as present when it is set to a non-empty value: the
\* script itself prints NOT SET / "not configured" for an empty one.
IsSet(v) == v.defined /\ v.chars # <<>>

\* The function that returned last, and what it added to the counters
Latest == IF executed = <<>> THEN "" ELSE executed[Len(executed)]
PassedAdded == testsPassed - passedBefore
FailedAdded == testsFailed - failedBefore

\* An external call that raised: a rejected promise, a request that failed
CallRaised(c) ==
    IF c.fn = "fetch" THEN c.response.kind = "error" ELSE c.outcome = "rejected"

RequiredNames == {envVars[i].name : i \in {j \in 1..Len(envVars) : envVars[j].required}}
OptionalNames == EnvNames \ RequiredNames

----------------------------------------------------------------------------
(* C1 *)

ClaimedOrder ==
    <<"testEnvironmentVariables", "testMongoDBConnection", "testCloudinaryAPI",
      "testResendAPI", "testJWTSecrets", "testCORSConfiguration",
      "testAPIEndpoints", "generateReport">>

\* C1: in every run of runAllTests the seven checks and generateReport run
\* exactly once each in the fixed order environment variables, database,
\* object storage, email service, secret strength, CORS origin, HTTP
\* endpoints, report: what has run is always a prefix of that order, the
\* function about to run is the next of the order, no outcome of a check
\* (pass, fail, erroring external call) ends the run early, and a finished run
\* has run all eight.
C1_FixedOrderEveryCheckRuns ==
    /\ Len(executed) <= Len(ClaimedOrder)
    /\ \A i \in 1..Len(executed) : executed[i] = ClaimedOrder[i]
    /\ pc # "exited"
    /\ pc # "done" => /\ Len(executed) < Len(ClaimedOrder)
                      /\ pc = ClaimedOrder[Len(executed) + 1]
    /\ pc = "done" => executed = ClaimedOrder

\* A finished run in which checks failed and checks passed, all eight having run
C1_Witness ==
    /\ pc = "done"
    /\ executed = ClaimedOrder
    /\ testsFailed >= 3
    /\ testsPassed >= 3

----------------------------------------------------------------------------
(* C2 *)

\* C2: for every assignment of present/absent to the ten variables,
\* testEnvironmentVariables counts per spec: a required variable that is
\* present adds 1 to passed and 0 to failed, a required variable that is
\* absent adds 1 to failed and 0 to passed, an optional variable that is
\* absent adds to neither; so the check adds to failed the number of absent
\* required variables, and to passed the number of present required variables
\* plus at most one per present optional variable.
C2_EnvironmentVariableCounting ==
    Latest = "testEnvironmentVariables" =>
        LET reqPresent == {n \in RequiredNames : IsSet(env[n])}
            reqAbsent == {n \in RequiredNames : ~IsSet(env[n])}
            optPresent == {n \in OptionalNames : IsSet(env[n])}
        IN /\ \A i \in 1..Len(envVars) :
                LET step == EnvVarStep(env, i)
                    present == IsSet(env[envVars[i].name])
                IN /\ (envVars[i].required /\ present)
                        => step.passed = 1 /\ step.failed = 0
                   /\ (envVars[i].required /\ ~present)
                        => step.passed = 0 /\ step.failed = 1
                   /\ ((~envVars[i].required) /\ ~present)
                        => step.passed = 0 /\ step.failed = 0
           /\ FailedAdded = Cardinality(reqAbsent)
           /\ PassedAdded >= Cardinality(reqPresent)
           /\ PassedAdded <= Cardinality(reqPresent) + Cardinality(optPresent)
           /\ Len(console) = Len(envVars)

\* The check has run on an environment with required variables of both kinds
\* and both optional variables absent
C2_Witness ==
    /\ Latest = "testEnvironmentVariables"
    /\ IsSet(env["MONGODB_URI"])
    /\ ~IsSet(env["RESEND_API"])
    /\ \A n \in OptionalNames : ~IsSet(env[n])
    /\ PassedAdded = 5
    /\ FailedAdded = 3

----------------------------------------------------------------------------
(* C3 *)

\* C3: the process exits with status 1 only when an exception escapes a check
\* into the try/catch of runAllTests; whatever the checks' outcomes, an error
\* raised by an external call is caught inside the check that made the call
\* and shows as an increment of the failed counter, exit(1) is never called,
\* and the run completes through generateReport with status 0.
C3_NoCheckOutcomeExits ==
    /\ exitCode # 1
    /\ pc # "exited"
    /\ (\E i \in 1..Len(calls) : CallRaised(calls[i])) => FailedAdded >= 1
    /\ pc = "done" => report.ran /\ exitCode = 0 /\ Latest = "generateReport"

\* A run that completed with status 0 although no check passed
C3_Witness ==
    /\ pc = "done"
    /\ report.ran
    /\ exitCode = 0
    /\ report.passed = 0
    /\ report.failed >= 13

----------------------------------------------------------------------------
(* C4 *)

\* C4: testResendAPI with the key present issues one GET to the provider and
\* a 401 adds 1 to passed, any 2xx adds 1 to passed, a network-level failure
\* adds 1 to failed, any other status adds 1 to failed; with the key absent
\* it adds 1 to failed and issues no request.  In every case exactly one
\* counter changes, by exactly 1.
C4_EmailServiceOutcomes ==
    Latest = "testResendAPI" =>
        /\ PassedAdded + FailedAdded = 1
        /\ PassedAdded \in {0, 1}
        /\ IF IsSet(env["RESEND_API"])
           THEN /\ Len(calls) = 1
                /\ calls[1].fn = "fetch"
                /\ calls[1].method = "GET"
                /\ calls[1].base = "https://api.resend.com/emails"
                /\ LET a == calls[1].response
                   IN PassedAdded = 1 <=>
                        /\ a.kind = "response"
                        /\ (a.status = 401 \/ a.status \in 200..299)
           ELSE calls = <<>> /\ FailedAdded = 1

\* The provider answered 401 and the check passed
C4_Witness ==
    /\ Latest = "testResendAPI"
    /\ IsSet(env["RESEND_API"])
    /\ calls = <<Fetch("GET", RESEND_URL, "", FALSE, Response(401))>>
    /\ PassedAdded = 1
    /\ FailedAdded = 0

----------------------------------------------------------------------------
(* C5 *)

ClaimedVerdict(passed, failed) ==
    IF failed = 0 THEN "ALL TESTS PASSED"
    ELSE IF passed * 100 >= 80 * (passed + failed)
    THEN "Some optional tests failed"
    ELSE "Critical failures detected"

\* C5: for every pair of counter values reachable when generateReport runs,
\* the verdict is the celebratory one when failed = 0, otherwise the warning
\* when passed*100 >= 80*(passed+failed), otherwise the hard failure; and
\* passed = 8, failed = 2 gives the rate 80.00% and the warning verdict.
C5_ReportVerdict ==
    /\ report.ran =>
        /\ report.passed = testsPassed
        /\ report.failed = testsFailed
        /\ report.totalTests = testsPassed + testsFailed
        /\ report.verdict = ClaimedVerdict(testsPassed, testsFailed)
    /\ generateReport(8, 2).passPercentage = 8000
    /\ generateReport(8, 2).verdict = "Some optional tests failed"

\* A report on counters at exactly 80% with failures: the warning verdict
C5_Witness ==
    /\ report.ran
    /\ report.failed > 0
    /\ report.passed * 100 = 80 * report.totalTests
    /\ report.passPercentage = 8000
    /\ report.verdict = "Some optional tests failed"

----------------------------------------------------------------------------
(* C6 *)

\* C6: in every run of the full sequence in which all eight required
\* variables are absent, whatever the optional variables and the answers of
\* the local endpoints, the failed counter at report time is at least the
\* number of required specs (8) and generateReport gives the critical-failure
\* verdict, the pass rate being below 80%.
C6_AllRequiredAbsentIsCritical ==
    (report.ran /\ \A n \in RequiredNames : ~IsSet(env[n])) =>
        /\ Cardinality(RequiredNames) = 8
        /\ report.failed >= Cardinality(RequiredNames)
        /\ report.verdict = "Critical failures detected"
        /\ report.passPercentage < 8000
        /\ report.passed * 100 < 80 * report.totalTests

\* All required variables absent, both optional ones set and every local
\* endpoint answering 200: the most passes such a run can collect
C6_Witness ==
    /\ report.ran
    /\ \A n \in RequiredNames : ~IsSet(env[n])
    /\ \A n \in OptionalNames : IsSet(env[n])
    /\ report.passed = 5
    /\ report.failed = 13
    /\ report.verdict = "Critical failures detected"

----------------------------------------------------------------------------
(* C7 *)

\* The substrings the script takes for a production origin
ProductionSubstrings == {VERCEL_APP, CAMPUSBITES}

\* C7: testCORSConfiguration classifies every frontend URL: absent adds 1 to
\* failed; exactly http://localhost:5173 adds 1 to passed (development); a
\* value containing a known production substring adds 1 to passed
\* (production); anything else, such as https://example.org, is reported as
\* unusual and changes neither counter.
C7_CorsClassification ==
    Latest = "testCORSConfiguration" =>
        LET url == env["FRONTEND_URL"]
        IN /\ Len(console) = 1
           /\ calls = <<>>
           /\ IF ~IsSet(url)
              THEN /\ PassedAdded = 0 /\ FailedAdded = 1
                   /\ console[1].msg = "FRONTEND_URL not configured"
              ELSE IF url.chars = DEV_ORIGIN
              THEN /\ PassedAdded = 1 /\ FailedAdded = 0
                   /\ console[1].msg = "CORS Configuration: VALID (Development)"
              ELSE IF \E sub \in ProductionSubstrings : Includes(url.chars, sub)
              THEN /\ PassedAdded = 1 /\ FailedAdded = 0
                   /\ console[1].msg = "CORS Configuration: VALID (Production)"
              ELSE /\ PassedAdded = 0 /\ FailedAdded = 0
                   /\ console[1].msg = "CORS Configuration: UNUSUAL"

\* https://example.org was classified: unusual, neither counter changed
C7_Witness ==
    /\ Latest = "testCORSConfiguration"
    /\ env["FRONTEND_URL"] = StrVal(UrlExample)
    /\ console = <<Line("CORS Configuration: UNUSUAL", "yellow")>>
    /\ PassedAdded = 0
    /\ FailedAdded = 0

----------------------------------------------------------------------------
(* C8 *)

ClaimedEndpoints ==
    <<[method |-> "GET", path |-> "/"],
      [method |-> "GET", path |-> "/api/category/get"],
      [method |-> "POST", path |-> "/api/product/get"]>>

\* C8: testAPIEndpoints issues exactly one request for each of the three
\* fixed endpoints, in list order; per endpoint a 2xx response adds 1 to
\* passed, a non-2xx response is a warning that changes neither counter, and
\* a network error adds 1 to failed without keeping the remaining endpoints
\* from being probed.
C8_EndpointProbing ==
    Latest = "testAPIEndpoints" =>
        /\ Len(calls) = Len(ClaimedEndpoints)
        /\ Len(console) = Len(ClaimedEndpoints)
        /\ \A i \in 1..Len(calls) :
             /\ calls[i].fn = "fetch"
             /\ calls[i].method = ClaimedEndpoints[i].method
             /\ calls[i].path = ClaimedEndpoints[i].path
             /\ calls[i].base = "http://localhost:8080"
             /\ (calls[i].response.kind = "response"
                 /\ calls[i].response.status \notin 200..299)
                    => console[i].color = "yellow"
        /\ PassedAdded =
             Cardinality({i \in 1..Len(calls) :
                            /\ calls[i].response.kind = "response"
                            /\ calls[i].response.status \in 200..299})
        /\ FailedAdded =
             Cardinality({i \in 1..Len(calls) : calls[i].response.kind = "error"})

\* The first request failed at the network level and the two others were
\* still made, one answered 200 and one 404
C8_Witness ==
    /\ Latest = "testAPIEndpoints"
    /\ Len(calls) = 3
    /\ calls[1].response = NetworkError
    /\ calls[2].response = Response(200)
    /\ calls[3].response = Response(404)
    /\ PassedAdded = 1
    /\ FailedAdded = 1

----------------------------------------------------------------------------
(* C9 *)

\* The number of the two secrets that are at least 20 characters long
SecretsLongEnough ==
    Cardinality({n \in {"SECRET_KEY_ACCESS_TOKEN", "SECRET_KEY_REFRESH_TOKEN"} :
                    IsSet(env[n]) /\ Len(env[n].chars) >= 20})

\* C9 as stated: testJWTSecrets judges each of the two secrets on its own, a
\* secret of at least 20 characters adding 1 to passed and any other secret
\* (19 or fewer characters, or missing) adding 1 to failed, so that the check
\* always adds exactly 2 to passed+failed.
C9_Original_EachSecretJudgedAlways ==
    Latest = "testJWTSecrets" =>
        /\ PassedAdded = SecretsLongEnough
        /\ FailedAdded = 2 - SecretsLongEnough

\* C9 as amended: when both secrets are present, each is judged on its own
\* (at least 20 characters adds 1 to passed, 19 or fewer adds 1 to failed,
\* the check adding exactly 2 to passed+failed); when either secret is
\* missing the check adds exactly 1 to failed and nothing to passed, and the
\* other secret is not judged.
C9_SecretStrength ==
    Latest = "testJWTSecrets" =>
        IF IsSet(env["SECRET_KEY_ACCESS_TOKEN"])
           /\ IsSet(env["SECRET_KEY_REFRESH_TOKEN"])
        THEN /\ PassedAdded = SecretsLongEnough
             /\ FailedAdded = 2 - SecretsLongEnough
             /\ Len(console) = 2
        ELSE /\ PassedAdded = 0
             /\ FailedAdded = 1
             /\ console = <<Line("JWT Secrets not configured", "red")>>

\* A 19-character access secret failed and a 20-character refresh secret
\* passed in the same check
C9_Witness ==
    /\ Latest = "testJWTSecrets"
    /\ Len(env["SECRET_KEY_ACCESS_TOKEN"].chars) = 19
    /\ Len(env["SECRET_KEY_REFRESH_TOKEN"].chars) = 20
    /\ PassedAdded = 1
    /\ FailedAdded = 1

----------------------------------------------------------------------------
(* C10 *)

\* C10: every invocation of testMongoDBConnection produces exactly one
\* result: whether the URI is absent, the connect attempt fails, connect and
\* teardown both succeed, or connect succeeds and teardown throws, exactly
\* one of the two counters increases, by exactly 1.
C10_DatabaseCheckOneResult ==
    Latest = "testMongoDBConnection" =>
        /\ PassedAdded + FailedAdded = 1
        /\ PassedAdded \in {0, 1}
        /\ FailedAdded \in {0, 1}

====
